---- MODULE Spec2Model ----
(***************************************************************************)
(* A model of the appbase application runtime: the plugin registry and its *)
(* dependency-first lifecycle (register / initialize / startup /           *)
(* shutdown), the priority task scheduler driven by application::exec on   *)
(* top of the io_context, and the signal handling that makes startup()     *)
(* interruptible.                                                          *)
(*                                                                         *)
(* The main thread is a stack machine: every frame of `stack` is one       *)
(* activation of a function of application.cpp / application.hpp, and one  *)
(* step of the model runs the code of the top frame up to its next call,   *)
(* hook or return.  A plugin hook (plugin_initialize, plugin_startup,      *)
(* plugin_shutdown) and a posted task are user code: each is one step      *)
(* whose outcome (returns, throws, calls quit()) is chosen freely.         *)
(***************************************************************************)
EXTENDS Integers, Sequences, FiniteSets, TLC

\* The plugin types of the program under analysis.
Plugins == {"A", "B", "C", "D"}

\* Priorities used by the posted tasks ("larger ints run first").
Priorities == {1, 2}

\* Bound of the model: the number of events the environment may cause in one
\* run.  An event is an initialize() call after the first, a hook that throws,
\* a quit() call made by the program, a post() and a delivered signal.
MaxEvents == 3

VARIABLES
    requires,            \* APPBASE_PLUGIN_REQUIRES of each plugin type, in declared order
    plugins,             \* application::plugins: the names in the name map
    state,               \* plugin::_state of each plugin object ("absent": no object)
    initialized_plugins, \* application::initialized_plugins
    running_plugins,     \* application::running_plugins
    is_quiting,          \* application_impl::is_quiting
    io_stopped,          \* stopped flag of the application's io_context
    io_queue,            \* handlers queued on the application's io_context, oldest first
    pri_queue,           \* execution_priority_queue: the set of queued tasks
    order_,              \* sequence number given to the next task entering pri_queue
    stack,               \* call stack of the main thread
    ret,                 \* what the last public call of the main thread returned
    hook_log,            \* the plugin hooks invoked so far, in order
    task_log,            \* the posted tasks executed so far, in order
    posted,              \* every task handed to post() so far, in order
    startup_sig,         \* the signal set, io_context and thread local to startup()
    main_sig,            \* the terminate signal set armed on the application's io_context
    signals,             \* number of terminate signals delivered to the process
    init_called,         \* initialize() has been called
    startup_called,      \* startup() has been called
    shutdowns,           \* number of application::shutdown() calls completed
    events,              \* number of environment events so far
    subscribers,         \* the subscribers connected to the channel, in connection order
    channel_tasks,       \* the posted tasks that are channel deliveries, with their data
    received,            \* the subscriber invocations so far, in order
    published,           \* the publish calls so far: data, subscribers then connected, tasks posted
    endpoints,           \* application::methods and channels: the endpoint stored for each declaration
    made,                \* the endpoints constructed so far, in order: kind and declaration of each
    connected,           \* the subscribers connected to each channel instance
    lookups,             \* the get_method / get_channel calls so far and what each returned
    sighup_callback,     \* application::sighup_callback holds a function
    sighup_sig,          \* the SIGHUP signal set armed on the application's io_context
    sighups,             \* number of SIGHUP signals delivered to the sighup set
    sighup_tasks,        \* the posted tasks that are reload tasks
    sighup_log,          \* what the reload tasks have invoked so far, in order
    startup_sighups      \* the SIGHUPs delivered to the set of the startup thread: was a startup hook running

vars == <<requires, plugins, state, initialized_plugins, running_plugins, is_quiting,
          io_stopped, io_queue, pri_queue, order_, stack, ret, hook_log, task_log,
          posted, startup_sig, main_sig, signals, init_called, startup_called, shutdowns, events,
          subscribers, channel_tasks, received, published,
          endpoints, made, connected, lookups,
          sighup_callback, sighup_sig, sighups, sighup_tasks, sighup_log, startup_sighups>>

registry_vars == <<plugins, state, initialized_plugins, running_plugins>>
sched_vars == <<io_queue, pri_queue, order_, task_log, posted>>
signal_vars == <<startup_sig, main_sig, signals>>
call_vars == <<init_called, startup_called, shutdowns>>
quit_vars == <<is_quiting, io_stopped>>
endpoint_vars == <<endpoints, made, connected, lookups>>
sighup_vars == <<sighup_callback, sighup_sig, sighups, sighup_tasks, sighup_log, startup_sighups>>
pubsub_vars == <<subscribers, channel_tasks, received, published>>
channel_vars == <<pubsub_vars, endpoint_vars, sighup_vars>>

----------------------------------------------------------------------------
\* Helpers on sequences.

Range(s) == {s[k] : k \in 1..Len(s)}

----------------------------------------------------------------------------
\* Dependency declarations.  A requires nothing, B requires A or nothing, C
\* requires both A and B and D requires C: a chain with a shared dependency
\* (D -> C -> B -> A, C -> A), C declaring A and B in either order, or two
\* independent plugins A and B under C.  Registering only A, B or C gives the
\* smaller graphs.

RequiresChoices ==
    {[p \in Plugins |-> CASE p = "A" -> <<>> [] p = "B" -> r[1] [] p = "C" -> r[2] [] p = "D" -> <<"C">>] :
        r \in {<< <<"A">>, <<"A", "B">> >>, << <<"A">>, <<"B", "A">> >>, << <<>>, <<"A", "B">> >>}}

\* plugin_requires(l) of plugin p, generated by APPBASE_PLUGIN_REQUIRES: the
\* declared dependencies, each registered with register_plugin and handed to l,
\* in declared order.
PluginRequires(p) == requires[p]

Deps(p) == Range(PluginRequires(p))

----------------------------------------------------------------------------
\* Call stack of the main thread.

Frame(fn, p, i) == [fn |-> fn, p |-> p, i |-> i, names |-> <<>>, autos |-> <<>>]

Top == stack[Len(stack)]
Pop == SubSeq(stack, 1, Len(stack) - 1)
ReplaceTop(f) == [stack EXCEPT ![Len(stack)] = f]
NextInTop == ReplaceTop([Top EXCEPT !.i = Top.i + 1])

\* The process was aborted by a failed assert().
Aborted == <<Frame("abort", "-", 0)>>

\* The main thread is between two public calls and the process is alive.
Idle == stack = <<>> /\ ret.op # "exec"

Returned(op, val) == [op |-> op, val |-> val]

----------------------------------------------------------------------------
\* application::register_plugin<Plugin>()

\* A registry under construction: the name map and the plugin objects that
\* register_plugin has constructed (new Plugin()) on the way.
Registry(map) == [map |-> map, made |-> {}]

RECURSIVE RegisterPlugin(_, _)
RECURSIVE RegisterDeps(_, _, _)

\* plugin::register_dependencies: plugin_requires visits the declared
\* dependencies in order and registers each.
RegisterDeps(ds, i, reg) ==
    IF i > Len(ds) THEN reg ELSE RegisterDeps(ds, i + 1, RegisterPlugin(ds[i], reg))

\* A register_plugin that constructs a plugin object even when the name is in the map.
RegisterPluginAnew(p, reg) ==
    RegisterDeps(PluginRequires(p), 1, [map |-> reg.map \cup {p}, made |-> reg.made \cup {p}])

\* A register_plugin that does not call register_dependencies().
RegisterPluginAlone(p, reg) ==
    IF p \in reg.map
    THEN reg
    ELSE [map |-> reg.map \cup {p}, made |-> reg.made \cup {p}]

\* register_plugin<p>() on registry reg: an existing plugin is returned as it
\* is; otherwise p is constructed, put in the map, and registers its dependencies.
RegisterPlugin(p, reg) ==
    IF p \in reg.map
    THEN reg
    ELSE RegisterDeps(PluginRequires(p), 1, [map |-> reg.map \cup {p}, made |-> reg.made \cup {p}])

\* The plugin states after a registration: a constructed object starts registered.
StateAfterRegister(st, reg) ==
    [q \in Plugins |-> IF q \in reg.made THEN "registered" ELSE st[q]]

Register(p) ==
    /\ Idle
    /\ LET reg == RegisterPlugin(p, Registry(plugins))
       IN  /\ plugins' = reg.map
           /\ state' = StateAfterRegister(state, reg)
    /\ ret' = Returned("register", p)
    /\ UNCHANGED <<requires, initialized_plugins, running_plugins, stack, hook_log, events>>
    /\ UNCHANGED <<sched_vars, signal_vars, quit_vars, call_vars>>
    /\ UNCHANGED channel_vars

----------------------------------------------------------------------------
\* plugin::initialize

\* A plugin::initialize without the test of _state.
PluginInitializeCallUnguarded(p, st, stk) ==
    {[state |-> [st EXCEPT ![p] = "initialized"],
      stack |-> Append(stk, Frame("plugin_initialize", p, 1))]}

\* The outcomes of calling plugin::initialize on p with plugin states st, the
\* caller's stack being stk: a registered plugin flips to initialized and runs
\* its body; any other state skips the body and meets the assert, which either
\* passes, aborts the process, or is compiled out.
PluginInitializeCall(p, st, stk) ==
    IF st[p] = "registered"
    THEN {[state |-> [st EXCEPT ![p] = "initialized"],
           stack |-> Append(stk, Frame("plugin_initialize", p, 1))]}
    ELSE IF st[p] = "initialized"
         THEN {[state |-> st, stack |-> stk]}
         ELSE {[state |-> st, stack |-> stk], [state |-> st, stack |-> Aborted]}

\* An initialize() that reports success although a hook has thrown.
InitializeFailureIgnored(f) == Returned("initialize", "true")

\* What the caller of initialize() gets when a hook throws: from the --plugin
\* loop the exception reaches the caller, from the autostart loop it is caught
\* and false is returned.
InitializeFailure(f) ==
    Returned("initialize", IF f.i - 1 <= Len(f.names) THEN "exception" ELSE "false")

\* app().plugin_initialized(*this)
PluginInitialized(p) == Append(initialized_plugins, p)

\* One step of the body of plugin::initialize of the top frame.
PluginInitializeStep ==
    /\ stack # <<>>
    /\ Top.fn = "plugin_initialize"
    /\ LET p == Top.p
           ds == PluginRequires(p)
       IN  IF Top.i <= Len(ds)
           THEN \* plugin_requires: register_plugin<dep>() and initialize it
                LET dep == ds[Top.i]
                    reg == RegisterPlugin(dep, Registry(plugins))
                IN  /\ plugins' = reg.map
                    /\ \E r \in PluginInitializeCall(dep, StateAfterRegister(state, reg), NextInTop) :
                          /\ state' = r.state
                          /\ stack' = r.stack
                    /\ UNCHANGED <<initialized_plugins, hook_log, ret, events>>
           ELSE \* plugin_initialize(), then app().plugin_initialized(*this)
                \E ok \in BOOLEAN :
                    /\ hook_log' = Append(hook_log, [h |-> "initialize", p |-> p, ok |-> ok])
                    /\ IF ok
                       THEN /\ initialized_plugins' = PluginInitialized(p)
                            /\ stack' = Pop
                            /\ UNCHANGED <<ret, events>>
                       ELSE /\ events < MaxEvents
                            /\ events' = events + 1
                            /\ initialized_plugins' = initialized_plugins
                            /\ stack' = <<>>
                            /\ ret' = InitializeFailure(stack[1])
                    /\ UNCHANGED <<plugins, state>>
    /\ UNCHANGED <<requires, running_plugins>>
    /\ UNCHANGED <<sched_vars, signal_vars, quit_vars, call_vars>>
    /\ UNCHANGED channel_vars

----------------------------------------------------------------------------
\* application::initialize<Plugin...>() / application::initialize_impl

\* initialize<Plugin...>() builds the autostart vector with find_plugin<Plugin>():
\* a plugin type that is not registered gives a null pointer.
FindAll(autos) == [k \in 1..Len(autos) |-> IF autos[k] \in plugins THEN autos[k] ELSE "null"]

\* The --plugin option names at most one plugin, and so does the template.
NameChoices == {<<>>} \cup {<<p>> : p \in Plugins}
AutostartChoices == {<<>>} \cup {<<p>> : p \in Plugins}

\* One initialize() call requests at most one plugin, by either way.
RequestChoices == {r \in NameChoices \X AutostartChoices : Len(r[1]) + Len(r[2]) <= 1}

Initialize(names, autos) ==
    /\ Idle
    /\ IF init_called
       THEN events < MaxEvents /\ events' = events + 1
       ELSE events' = events
    /\ init_called' = TRUE
    /\ stack' = <<[fn |-> "initialize_impl", p |-> "-", i |-> 1, names |-> names,
                   autos |-> FindAll(autos)]>>
    /\ UNCHANGED <<requires, ret, hook_log, startup_called, shutdowns>>
    /\ UNCHANGED <<registry_vars, sched_vars, signal_vars, quit_vars>>
    /\ UNCHANGED channel_vars

InitializeImplStep ==
    /\ stack # <<>>
    /\ Top.fn = "initialize_impl"
    /\ LET f == Top
           n == Len(f.names)
           m == Len(f.autos)
       IN  CASE f.i <= n ->
                  \* get_plugin(name).initialize(my->config)
                  IF f.names[f.i] \notin plugins
                  THEN /\ stack' = <<>>
                       /\ ret' = Returned("initialize", "exception")
                       /\ state' = state
                  ELSE /\ \E r \in PluginInitializeCall(f.names[f.i], state, NextInTop) :
                             /\ state' = r.state
                             /\ stack' = r.stack
                       /\ ret' = ret
            [] f.i > n /\ f.i <= n + m ->
                  LET pl == f.autos[f.i - n]
                  IN  IF pl # "null" /\ state[pl] = "registered"
                      THEN /\ \E r \in PluginInitializeCall(pl, state, NextInTop) :
                                 /\ state' = r.state
                                 /\ stack' = r.stack
                           /\ ret' = ret
                      ELSE /\ stack' = NextInTop
                           /\ UNCHANGED <<state, ret>>
            [] f.i > n + m ->
                  /\ stack' = <<>>
                  /\ ret' = Returned("initialize", "true")
                  /\ state' = state
    /\ UNCHANGED <<requires, plugins, initialized_plugins, running_plugins, hook_log, events>>
    /\ UNCHANGED <<sched_vars, signal_vars, quit_vars, call_vars>>
    /\ UNCHANGED channel_vars

----------------------------------------------------------------------------
\* application::quit() and the terminate signals.

\* User code of the main thread is running: a hook of the top frame or a task.
InHook(fn) == stack # <<>> /\ Top.fn = fn /\ Top.i > Len(PluginRequires(Top.p))
UserCode == \/ InHook("plugin_initialize")
            \/ InHook("plugin_startup")
            \/ (stack # <<>> /\ Top.fn \in {"exec_task", "sighup_task"})

InStartup == stack # <<>> /\ stack[1].fn \in {"startup", "startup_rearm", "startup_catch", "startup_rethrow"}
InExec == stack # <<>> /\ stack[1].fn \in {"exec_poll", "exec_task", "exec_run_one", "exec_exit"}

\* A quit() that flips the flag instead of setting it.
QuitFlagToggle == ~is_quiting

\* my->is_quiting = true
QuitFlag == TRUE

\* quit(): sets the flag and stops the application's io_context.
Quit ==
    /\ Idle \/ UserCode
    /\ events < MaxEvents
    /\ events' = events + 1
    /\ is_quiting' = QuitFlag
    /\ io_stopped' = TRUE
    /\ UNCHANGED <<requires, stack, ret, hook_log>>
    /\ UNCHANGED <<registry_vars, sched_vars, signal_vars, call_vars>>
    /\ UNCHANGED channel_vars

NoStartupSig == [thread |-> "none", armed |-> FALSE, undelivered |-> 0, ready |-> 0]
NoMainSig == [exists |-> FALSE, armed |-> FALSE, undelivered |-> 0]
SignalHandler == [kind |-> "signal", id |-> 0, priority |-> 0]
NoSighupSig == [exists |-> FALSE, armed |-> FALSE, undelivered |-> 0]
SighupHandler == [kind |-> "sighup", id |-> 0, priority |-> 0]

\* SIGINT, SIGTERM or SIGPIPE is delivered to the process: every signal set that
\* has it registered either completes its pending async_wait (the handler is
\* queued on the set's io_context) or keeps the signal for its next async_wait.
\* A signal delivered between startup() and exec() waits in the io_context as
\* one delivered when exec() begins.
SignalArrive ==
    /\ startup_sig.thread # "none" \/ main_sig.exists
    /\ InStartup \/ InExec
    /\ events < MaxEvents
    /\ events' = events + 1
    /\ signals' = signals + 1
    /\ startup_sig' =
          IF startup_sig.thread = "none" THEN startup_sig
          ELSE IF startup_sig.armed
               THEN [startup_sig EXCEPT !.armed = FALSE, !.ready = @ + 1]
               ELSE [startup_sig EXCEPT !.undelivered = @ + 1]
    /\ main_sig' =
          IF ~main_sig.exists THEN main_sig
          ELSE IF main_sig.armed
               THEN [main_sig EXCEPT !.armed = FALSE]
               ELSE [main_sig EXCEPT !.undelivered = @ + 1]
    /\ io_queue' = IF main_sig.exists /\ main_sig.armed THEN Append(io_queue, SignalHandler) ELSE io_queue
    /\ UNCHANGED <<requires, stack, ret, hook_log, pri_queue, order_, task_log, posted>>
    /\ UNCHANGED <<registry_vars, quit_vars, call_vars>>
    /\ UNCHANGED channel_vars

\* The startup thread runs startup_thread_ioc.run(): the handler of
\* wait_for_signal calls quit() and waits for the next signal.
StartupThreadRun ==
    /\ startup_sig.thread = "running"
    /\ startup_sig.ready > 0
    /\ is_quiting' = QuitFlag
    /\ io_stopped' = TRUE
    /\ startup_sig' =
          IF startup_sig.undelivered > 0
          THEN [startup_sig EXCEPT !.undelivered = @ - 1]
          ELSE [startup_sig EXCEPT !.ready = @ - 1, !.armed = TRUE]
    /\ UNCHANGED <<requires, stack, ret, hook_log, main_sig, signals, events>>
    /\ UNCHANGED <<registry_vars, sched_vars, call_vars>>
    /\ UNCHANGED channel_vars

----------------------------------------------------------------------------
\* plugin::startup and application::startup()

\* A plugin::startup without the test of _state.
PluginStartupCallUnguarded(p, st, stk) ==
    {[state |-> [st EXCEPT ![p] = "started"],
      stack |-> Append(stk, Frame("plugin_startup", p, 1))]}

\* The outcomes of calling plugin::startup on p: an initialized plugin flips to
\* started and runs its body; any other state skips it and meets the assert.
PluginStartupCall(p, st, stk) ==
    IF st[p] = "initialized"
    THEN {[state |-> [st EXCEPT ![p] = "started"],
           stack |-> Append(stk, Frame("plugin_startup", p, 1))]}
    ELSE IF st[p] = "started"
         THEN {[state |-> st, stack |-> stk]}
         ELSE {[state |-> st, stack |-> stk], [state |-> st, stack |-> Aborted]}

\* app().plugin_started(*this)
PluginStarted(p) == Append(running_plugins, p)

\* One step of the body of plugin::startup of the top frame.
PluginStartupStep ==
    /\ stack # <<>>
    /\ Top.fn = "plugin_startup"
    /\ LET p == Top.p
           ds == PluginRequires(p)
       IN  IF Top.i <= Len(ds)
           THEN \* plugin_requires: register_plugin<dep>() and start it
                LET dep == ds[Top.i]
                    reg == RegisterPlugin(dep, Registry(plugins))
                IN  /\ plugins' = reg.map
                    /\ \E r \in PluginStartupCall(dep, StateAfterRegister(state, reg), NextInTop) :
                          /\ state' = r.state
                          /\ stack' = r.stack
                    /\ UNCHANGED <<running_plugins, hook_log, events>>
           ELSE \* plugin_startup(), then app().plugin_started(*this)
                \E ok \in BOOLEAN :
                    /\ hook_log' = Append(hook_log, [h |-> "startup", p |-> p, ok |-> ok])
                    /\ IF ok
                       THEN /\ running_plugins' = PluginStarted(p)
                            /\ stack' = Pop
                            /\ events' = events
                       ELSE \* the exception unwinds to the catch of application::startup
                            /\ events < MaxEvents
                            /\ events' = events + 1
                            /\ running_plugins' = running_plugins
                            /\ stack' = <<Frame("startup_catch", "-", 0)>>
                    /\ UNCHANGED <<plugins, state>>
    /\ UNCHANGED <<requires, initialized_plugins, ret>>
    /\ UNCHANGED <<sched_vars, signal_vars, quit_vars, call_vars>>
    /\ UNCHANGED channel_vars

\* startup(): the signal set on startup_thread_ioc and the thread running it.
Startup ==
    /\ Idle
    /\ ~startup_called
    /\ startup_called' = TRUE
    /\ startup_sig' = [thread |-> "running", armed |-> TRUE, undelivered |-> 0, ready |-> 0]
    /\ stack' = <<Frame("startup", "-", 1)>>
    /\ UNCHANGED <<requires, ret, hook_log, main_sig, signals, init_called, shutdowns, events>>
    /\ UNCHANGED <<registry_vars, sched_vars, quit_vars>>
    /\ UNCHANGED channel_vars

\* A clean_up_signal_thread() that leaves the thread running.
CleanUpSignalThreadDetached == startup_sig

\* clean_up_signal_thread(): stop startup_thread_ioc and join the thread.  The
\* handlers still queued on startup_thread_ioc are not run.
CleanUpSignalThread == [startup_sig EXCEPT !.thread = "stopped"]

\* The loop of startup() over initialized_plugins; when it ends or breaks, the
\* signal thread is cleaned up.
StartupStep ==
    /\ stack # <<>>
    /\ Top.fn = "startup"
    /\ IF Top.i <= Len(initialized_plugins) /\ ~is_quiting
       THEN /\ \E r \in PluginStartupCall(initialized_plugins[Top.i], state, NextInTop) :
                  /\ state' = r.state
                  /\ stack' = r.stack
            /\ startup_sig' = startup_sig
       ELSE /\ startup_sig' = CleanUpSignalThread
            /\ stack' = <<Frame("startup_rearm", "-", 0)>>
            /\ state' = state
    /\ UNCHANGED <<requires, plugins, initialized_plugins, running_plugins, ret, hook_log,
                   main_sig, signals, events>>
    /\ UNCHANGED <<sched_vars, quit_vars, call_vars>>
    /\ UNCHANGED channel_vars

\* setup_signal_handling_on_ioc(io_context(), false), the SIGHUP set is made and
\* start_sighup_handler waits on it, and startup() returns: startup_thread_ioc
\* and what is queued on it are destroyed.
StartupRearm ==
    /\ stack # <<>>
    /\ Top.fn = "startup_rearm"
    /\ main_sig' = [exists |-> TRUE, armed |-> TRUE, undelivered |-> 0]
    /\ sighup_sig' = [exists |-> TRUE, armed |-> TRUE, undelivered |-> 0]
    /\ startup_sig' = NoStartupSig
    /\ stack' = <<>>
    /\ ret' = Returned("startup", "ok")
    /\ UNCHANGED <<requires, hook_log, signals, events>>
    /\ UNCHANGED <<registry_vars, sched_vars, quit_vars, call_vars>>
    /\ UNCHANGED <<pubsub_vars, endpoint_vars, sighup_callback, sighups, sighup_tasks, sighup_log, startup_sighups>>

\* A catch block that rethrows without calling shutdown().
CatchFramesNoShutdown == <<Frame("startup_rethrow", "-", 0)>>

\* What the catch block of startup() has to do after clean_up_signal_thread():
\* shutdown(), then throw.
CatchFrames == <<Frame("startup_rethrow", "-", 0), Frame("shutdown", "-", Len(running_plugins))>>

\* catch (...) of startup(): clean_up_signal_thread(); shutdown(); throw;
StartupCatch ==
    /\ stack # <<>>
    /\ Top.fn = "startup_catch"
    /\ startup_sig' = CleanUpSignalThread
    /\ stack' = CatchFrames
    /\ UNCHANGED <<requires, ret, hook_log, main_sig, signals, events>>
    /\ UNCHANGED <<registry_vars, sched_vars, quit_vars, call_vars>>
    /\ UNCHANGED channel_vars

StartupRethrow ==
    /\ stack # <<>>
    /\ Top.fn = "startup_rethrow"
    /\ startup_sig' = NoStartupSig
    /\ stack' = <<>>
    /\ ret' = Returned("startup", "exception")
    /\ UNCHANGED <<requires, hook_log, main_sig, signals, events>>
    /\ UNCHANGED <<registry_vars, sched_vars, quit_vars, call_vars>>
    /\ UNCHANGED channel_vars

----------------------------------------------------------------------------
\* plugin::shutdown and application::shutdown()

\* A plugin::shutdown that leaves _state as it is.
PluginShutdownKeeps(p, st) == st

\* plugin::shutdown on p: a started plugin flips to stopped and runs plugin_shutdown().
PluginShutdown(p, st) == IF st[p] = "started" THEN [st EXCEPT ![p] = "stopped"] ELSE st

\* A loop that walks running_plugins from its first element.
ShutdownTargetForward(i) == running_plugins[Len(running_plugins) - i + 1]

\* The plugin whose shutdown the loop of application::shutdown calls at position i.
ShutdownTarget(i) == running_plugins[i]

ShutdownStep ==
    /\ stack # <<>>
    /\ Top.fn = "shutdown"
    /\ IF Top.i >= 1
       THEN \* (*ritr)->shutdown()
            LET p == ShutdownTarget(Top.i)
            IN  /\ state' = PluginShutdown(p, state)
                /\ hook_log' = IF state[p] = "started"
                               THEN Append(hook_log, [h |-> "shutdown", p |-> p, ok |-> TRUE])
                               ELSE hook_log
                /\ stack' = ReplaceTop([Top EXCEPT !.i = Top.i - 1])
                /\ UNCHANGED <<plugins, initialized_plugins, running_plugins, is_quiting,
                               io_stopped, shutdowns>>
       ELSE \* erase the plugins, clear the vectors and the map, quit()
            /\ plugins' = {}
            /\ state' = [q \in Plugins |-> "absent"]
            /\ running_plugins' = <<>>
            /\ initialized_plugins' = <<>>
            /\ is_quiting' = QuitFlag
            /\ io_stopped' = TRUE
            /\ shutdowns' = shutdowns + 1
            /\ stack' = Pop
            /\ hook_log' = hook_log
    /\ UNCHANGED <<requires, ret, init_called, startup_called, events>>
    /\ UNCHANGED <<sched_vars, signal_vars>>
    /\ UNCHANGED channel_vars

----------------------------------------------------------------------------
\* application::post and the loop of application::exec()

\* The application's io_context exists: exec() has not reached _io_context.reset().
IoContextAlive == ret.op # "exec"

\* post(priority, func): the wrapped function is queued on the io_context, by
\* anyone (a task, another thread) and at any moment of exec().  A function
\* posted before exec() waits in the io_context until exec() runs, exactly as
\* one posted when exec() begins.
Post(priority) ==
    /\ IoContextAlive
    /\ InExec
    /\ events < MaxEvents
    /\ events' = events + 1
    /\ posted' = Append(posted, priority)
    /\ io_queue' = Append(io_queue, [kind |-> "task", id |-> Len(posted) + 1, priority |-> priority])
    /\ UNCHANGED <<requires, stack, ret, hook_log, pri_queue, order_, task_log>>
    /\ UNCHANGED <<registry_vars, signal_vars, quit_vars, call_vars>>
    /\ UNCHANGED channel_vars

\* A signal handler whose quit() also empties the priority queue.
RunHandlerDroppingTasks(h, rest) ==
    IF h.kind = "task"
    THEN /\ pri_queue' = pri_queue \cup {[id |-> h.id, priority |-> h.priority, order |-> order_]}
         /\ order_' = order_ + 1
         /\ io_queue' = rest
         /\ UNCHANGED <<is_quiting, io_stopped, main_sig>>
    ELSE /\ is_quiting' = QuitFlag
         /\ io_stopped' = TRUE
         /\ main_sig' = [main_sig EXCEPT !.armed = TRUE]
         /\ io_queue' = rest
         /\ pri_queue' = {}
         /\ order_' = order_

\* The io_context runs its oldest handler h, rest being the other handlers: a
\* wrapped function enters the priority queue; the handler of wait_for_signal
\* calls quit() and waits for the next signal.
RunHandler(h, rest) ==
    IF h.kind = "task"
    THEN /\ pri_queue' = pri_queue \cup {[id |-> h.id, priority |-> h.priority, order |-> order_]}
         /\ order_' = order_ + 1
         /\ io_queue' = rest
         /\ UNCHANGED <<is_quiting, io_stopped, main_sig>>
    ELSE /\ is_quiting' = QuitFlag
         /\ io_stopped' = TRUE
         /\ IF main_sig.undelivered > 0
            THEN /\ main_sig' = [main_sig EXCEPT !.undelivered = @ - 1]
                 /\ io_queue' = Append(rest, SignalHandler)
            ELSE /\ main_sig' = [main_sig EXCEPT !.armed = TRUE]
                 /\ io_queue' = rest
         /\ UNCHANGED <<pri_queue, order_>>

\* execution_priority_queue: the task execute_highest() runs.
HighestTask ==
    CHOOSE t \in pri_queue :
        \A u \in pri_queue : \/ u.priority < t.priority
                             \/ u.priority = t.priority /\ u.order >= t.order

\* An exec() that enters its loop whether or not a plugin is running.
ExecEntersAlways == TRUE

\* if (running_plugins.size())
ExecEnters == running_plugins # <<>>

\* exec(): with no running plugin only the io_context is reset.
Exec ==
    /\ Idle
    /\ IF ExecEnters
       THEN stack' = <<Frame("exec_poll", "-", 0)>> /\ ret' = ret
       ELSE stack' = <<>> /\ ret' = Returned("exec", "ok")
    /\ main_sig' = IF ExecEnters THEN main_sig ELSE NoMainSig
    /\ sighup_sig' = IF ExecEnters THEN sighup_sig ELSE NoSighupSig
    /\ io_queue' = IF ExecEnters THEN io_queue ELSE <<>>
    /\ UNCHANGED <<requires, hook_log, startup_sig, signals, pri_queue, order_, task_log, posted, events>>
    /\ UNCHANGED <<registry_vars, quit_vars, call_vars>>
    /\ UNCHANGED <<pubsub_vars, endpoint_vars, sighup_callback, sighups, sighup_tasks, sighup_log, startup_sighups>>

\* poll_one() finds something to run.
PollReady == ~io_stopped /\ io_queue # <<>>

\* A loop that calls execute_highest() without waiting for poll_one() to return 0.
DrainedAlways == TRUE

\* while (_io_context->poll_one()) {} has ended: poll_one() returned 0.
Drained == ~PollReady

\* while (_io_context->poll_one()) {}
ExecPollOne ==
    /\ stack # <<>>
    /\ Top.fn = "exec_poll"
    /\ PollReady
    /\ Head(io_queue) # SighupHandler
    /\ RunHandler(Head(io_queue), Tail(io_queue))
    /\ UNCHANGED <<requires, stack, ret, hook_log, startup_sig, signals, task_log, posted, events>>
    /\ UNCHANGED <<registry_vars, call_vars>>
    /\ UNCHANGED channel_vars

\* _signal(data), called by the delivery task id: every subscriber connected at
\* that moment is invoked with the data, in connection order.
SignalInvoke(data, id) ==
    received \o [k \in 1..Len(subscribers) |-> [sub |-> subscribers[k], data |-> data, task |-> id]]

\* A delivery task that invokes the subscribers that were connected when its
\* publish was made, as if the lambda had captured them.
TaskInvokesCaptured(id) ==
    IF \E t \in channel_tasks : t.id = id
    THEN LET e == CHOOSE e \in Range(published) : e.posts = 1 /\ e.task = id
         IN  received \o [k \in 1..Len(e.subs) |-> [sub |-> e.subs[k], data |-> e.data, task |-> id]]
    ELSE received

\* What running the posted task id invokes: a delivery task calls
\* _signal(data); any other task invokes no subscriber.
TaskInvokes(id) ==
    IF \E t \in channel_tasks : t.id = id
    THEN SignalInvoke((CHOOSE t \in channel_tasks : t.id = id).data, id)
    ELSE received

\* The frames of the running task id: the lambda posted by the handler of
\* start_sighup_handler has a body of its own.
TaskFrames(id) ==
    IF id \in sighup_tasks
    THEN <<Frame("exec_task", "-", id), Frame("sighup_task", "-", 0)>>
    ELSE <<Frame("exec_task", "-", id)>>

\* poll_one() returns 0 and execute_highest() is called: the top task starts,
\* or the queue is empty and more is false.
ExecuteHighest ==
    /\ stack # <<>>
    /\ Top.fn = "exec_poll"
    /\ Drained
    /\ IF pri_queue # {}
       THEN /\ stack' = TaskFrames(HighestTask.id)
            /\ task_log' = Append(task_log, HighestTask.id)
            /\ received' = TaskInvokes(HighestTask.id)
       ELSE /\ stack' = <<Frame("exec_run_one", "-", 0)>>
            /\ task_log' = task_log
            /\ received' = received
    /\ UNCHANGED <<requires, ret, hook_log, io_queue, pri_queue, order_, posted, events>>
    /\ UNCHANGED <<registry_vars, signal_vars, quit_vars, call_vars>>
    /\ UNCHANGED <<subscribers, channel_tasks, published>>
    /\ UNCHANGED endpoint_vars
    /\ UNCHANGED sighup_vars

\* An execute_highest() that always reports an empty queue.
MoreNever(q) == FALSE

\* The value execute_highest() returns with q left in the queue: whether
\* there is more to execute.
More(q) == q # {}

\* An execute_highest() that leaves the task it has run in the queue.
PopNothing(q, t) == q

\* handlers_.pop() with q in the queue, after the top task t has run.
Pop_(q, t) == q \ {t}

\* The running task returns; handlers_.pop(); more = !handlers_.empty().
TaskReturn ==
    /\ stack # <<>>
    /\ Top.fn = "exec_task"
    /\ pri_queue' = Pop_(pri_queue, HighestTask)
    /\ stack' = IF More(pri_queue') THEN <<Frame("exec_poll", "-", 0)>> ELSE <<Frame("exec_run_one", "-", 0)>>
    /\ UNCHANGED <<requires, ret, hook_log, io_queue, order_, task_log, posted, events>>
    /\ UNCHANGED <<registry_vars, signal_vars, quit_vars, call_vars>>
    /\ UNCHANGED channel_vars

\* more is false: run_one() blocks for a handler and runs it, or returns 0
\* because the io_context is stopped, which ends the loop: shutdown() is called.
ExecRunOne ==
    /\ stack # <<>>
    /\ Top.fn = "exec_run_one"
    /\ IF io_stopped
       THEN /\ stack' = <<Frame("exec_exit", "-", 0), Frame("shutdown", "-", Len(running_plugins))>>
            /\ UNCHANGED <<io_queue, pri_queue, order_, is_quiting, io_stopped, main_sig>>
       ELSE /\ io_queue # <<>>
            /\ Head(io_queue) # SighupHandler
            /\ RunHandler(Head(io_queue), Tail(io_queue))
            /\ stack' = <<Frame("exec_poll", "-", 0)>>
    /\ UNCHANGED <<requires, ret, hook_log, startup_sig, signals, task_log, posted, events>>
    /\ UNCHANGED <<registry_vars, call_vars>>
    /\ UNCHANGED channel_vars

\* shutdown() has returned: _io_context.reset() and exec() returns.
ExecExit ==
    /\ stack # <<>>
    /\ Top.fn = "exec_exit"
    /\ stack' = <<>>
    /\ ret' = Returned("exec", "ok")
    /\ io_queue' = <<>>
    /\ main_sig' = NoMainSig
    /\ sighup_sig' = NoSighupSig
    /\ UNCHANGED <<requires, hook_log, startup_sig, signals, pri_queue, order_, task_log, posted, events>>
    /\ UNCHANGED <<registry_vars, quit_vars, call_vars>>
    /\ UNCHANGED <<pubsub_vars, endpoint_vars, sighup_callback, sighups, sighup_tasks, sighup_log, startup_sighups>>


----------------------------------------------------------------------------
\* SIGHUP: set_sighup_callback and start_sighup_handler

\* priority::medium
Medium == 1

\* set_sighup_callback(callback), called by the program with a function.
SetSighupCallback ==
    /\ Idle
    /\ ~sighup_callback
    /\ sighup_callback' = TRUE
    /\ UNCHANGED <<requires, stack, ret, hook_log, events>>
    /\ UNCHANGED <<registry_vars, sched_vars, signal_vars, quit_vars, call_vars>>
    /\ UNCHANGED <<pubsub_vars, endpoint_vars, sighup_sig, sighups, sighup_tasks, sighup_log, startup_sighups>>

\* The startup set after a signal it has registered is delivered: the pending
\* async_wait completes and its handler is queued on startup_thread_ioc, or the
\* set keeps the signal for its next async_wait.
StartupSetDelivered(sig) ==
    IF sig.armed
    THEN [sig EXCEPT !.armed = FALSE, !.ready = @ + 1]
    ELSE [sig EXCEPT !.undelivered = @ + 1]

\* SIGHUP is delivered to the process.  During startup() it is in the set of
\* the startup thread (ss->add(SIGHUP)), next to the terminate signals.  Once
\* the sighup set exists the pending async_wait of that set completes and its
\* handler is queued on the io_context, or the set keeps the signal for its
\* next async_wait.
SighupArrive ==
    /\ startup_sig.thread # "none" \/ sighup_sig.exists
    /\ InStartup \/ InExec
    /\ events < MaxEvents
    /\ events' = events + 1
    /\ IF startup_sig.thread # "none"
       THEN /\ startup_sig' = StartupSetDelivered(startup_sig)
            /\ startup_sighups' = Append(startup_sighups, InHook("plugin_startup"))
       ELSE UNCHANGED <<startup_sig, startup_sighups>>
    /\ IF sighup_sig.exists
       THEN /\ sighups' = sighups + 1
            /\ sighup_sig' =
                  IF sighup_sig.armed
                  THEN [sighup_sig EXCEPT !.armed = FALSE]
                  ELSE [sighup_sig EXCEPT !.undelivered = @ + 1]
            /\ io_queue' = IF sighup_sig.armed THEN Append(io_queue, SighupHandler) ELSE io_queue
       ELSE UNCHANGED <<sighups, sighup_sig, io_queue>>
    /\ UNCHANGED <<requires, stack, ret, hook_log, pri_queue, order_, task_log, posted>>
    /\ UNCHANGED <<registry_vars, main_sig, signals, quit_vars, call_vars>>
    /\ UNCHANGED <<pubsub_vars, endpoint_vars, sighup_callback, sighup_tasks, sighup_log>>

\* start_sighup_handler(sighup_set), called by the handler: the set waits for
\* the next SIGHUP, which is already there when one was kept.
StartSighupHandler(sig) ==
    IF sig.undelivered > 0
    THEN [sig EXCEPT !.undelivered = @ - 1]
    ELSE [sig EXCEPT !.armed = TRUE]

\* The io_context runs the handler of the sighup set, in poll_one() or in
\* run_one(): it posts the reload task at priority::medium and calls
\* start_sighup_handler again.
SighupHandlerRun ==
    /\ stack # <<>>
    /\ Top.fn \in {"exec_poll", "exec_run_one"}
    /\ PollReady
    /\ Head(io_queue) = SighupHandler
    /\ posted' = Append(posted, Medium)
    /\ sighup_tasks' = sighup_tasks \cup {Len(posted) + 1}
    /\ sighup_sig' = StartSighupHandler(sighup_sig)
    /\ io_queue' = Append(Tail(io_queue), [kind |-> "task", id |-> Len(posted) + 1, priority |-> Medium])
                     \o (IF sighup_sig.undelivered > 0 THEN <<SighupHandler>> ELSE <<>>)
    /\ stack' = <<Frame("exec_poll", "-", 0)>>
    /\ UNCHANGED <<requires, ret, hook_log, pri_queue, order_, task_log, events>>
    /\ UNCHANGED <<registry_vars, signal_vars, quit_vars, call_vars>>
    /\ UNCHANGED <<pubsub_vars, endpoint_vars, sighup_callback, sighups, sighup_log, startup_sighups>>

\* A reload task that goes over the running plugins.
ReloadTargetsRunning == running_plugins

\* for (auto plugin : initialized_plugins): the plugins whose handle_sighup the
\* reload task calls, in order.
ReloadTargets == initialized_plugins

\* One step of the reload task: sighup_callback(), which throws
\* std::bad_function_call out of exec() when no function was set; then, for
\* each plugin of initialized_plugins, return if is_quiting(), else
\* plugin->handle_sighup().
SighupTaskStep ==
    /\ stack # <<>>
    /\ Top.fn = "sighup_task"
    /\ LET id == stack[1].i
       IN  IF Top.i = 0
           THEN IF sighup_callback
                THEN /\ sighup_log' = Append(sighup_log, [task |-> id, call |-> "callback"])
                     /\ stack' = NextInTop
                     /\ ret' = ret
                ELSE /\ sighup_log' = sighup_log
                     /\ stack' = <<>>
                     /\ ret' = Returned("exec", "bad_function_call")
           ELSE IF Top.i <= Len(ReloadTargets) /\ ~is_quiting
                THEN /\ sighup_log' = Append(sighup_log, [task |-> id, call |-> ReloadTargets[Top.i]])
                     /\ stack' = NextInTop
                     /\ ret' = ret
                ELSE /\ sighup_log' = sighup_log
                     /\ stack' = Pop
                     /\ ret' = ret
    /\ UNCHANGED <<requires, hook_log, events>>
    /\ UNCHANGED <<registry_vars, sched_vars, signal_vars, quit_vars, call_vars>>
    /\ UNCHANGED <<pubsub_vars, endpoint_vars, sighup_callback, sighup_sig, sighups, sighup_tasks, startup_sighups>>

----------------------------------------------------------------------------
\* channel<Data>: subscribe, unsubscribe and publish on one channel.

\* The subscribers a program connects, and the data values it publishes.
Subscribers == {"s1", "s2"}
Data == {"x", "y"}

\* channel::subscribe, called by the program: the subscriber is connected.
Subscribe(sub) ==
    /\ Idle \/ UserCode
    /\ sub \notin Range(subscribers)
    /\ events < MaxEvents
    /\ events' = events + 1
    /\ subscribers' = Append(subscribers, sub)
    /\ UNCHANGED <<requires, stack, ret, hook_log, channel_tasks, received, published>>
    /\ UNCHANGED endpoint_vars
    /\ UNCHANGED sighup_vars
    /\ UNCHANGED <<registry_vars, sched_vars, signal_vars, quit_vars, call_vars>>

\* The handle of a subscription is released: the subscriber is disconnected.
Unsubscribe(sub) ==
    /\ Idle \/ UserCode
    /\ sub \in Range(subscribers)
    /\ events < MaxEvents
    /\ events' = events + 1
    /\ subscribers' = SelectSeq(subscribers, LAMBDA x : x # sub)
    /\ UNCHANGED <<requires, stack, ret, hook_log, channel_tasks, received, published>>
    /\ UNCHANGED endpoint_vars
    /\ UNCHANGED sighup_vars
    /\ UNCHANGED <<registry_vars, sched_vars, signal_vars, quit_vars, call_vars>>

\* A has_subscribers() that is always true.
HasSubscribersAlways == TRUE

\* has_subscribers()
HasSubscribers == subscribers # <<>>

\* A publish that calls _signal(data) itself.
PublishInvokesNow(data) == SignalInvoke(data, 0)

\* The subscriber invocations after the publish call has returned: the lambda
\* that calls _signal(data) is only handed to post, nothing is invoked.
PublishInvokes(data) == received

\* channel::publish(priority, data), called by the program.
Publish(priority, data) ==
    /\ Idle \/ UserCode
    /\ IoContextAlive
    /\ events < MaxEvents
    /\ events' = events + 1
    /\ IF HasSubscribers
       THEN /\ posted' = Append(posted, priority)
            /\ io_queue' = Append(io_queue, [kind |-> "task", id |-> Len(posted) + 1, priority |-> priority])
            /\ channel_tasks' = channel_tasks \cup {[id |-> Len(posted) + 1, data |-> data]}
       ELSE UNCHANGED <<posted, io_queue, channel_tasks>>
    /\ received' = PublishInvokes(data)
    /\ published' = Append(published, [data |-> data, subs |-> subscribers,
                                        posts |-> Len(posted') - Len(posted), task |-> Len(posted')])
    /\ UNCHANGED <<requires, stack, ret, hook_log, pri_queue, order_, task_log, subscribers>>
    /\ UNCHANGED <<registry_vars, signal_vars, quit_vars, call_vars>>
    /\ UNCHANGED endpoint_vars
    /\ UNCHANGED sighup_vars

----------------------------------------------------------------------------
\* get_method<Decl>() and get_channel<Decl>()

\* The declaration types of a program, and the two kinds of endpoint.
Decls == {"d1", "d2"}
Kinds == {"method", "channel"}

\* No endpoint is stored for a declaration.
NoEndpoint == 0

\* A lookup that constructs a new endpoint every time.
GetOrCreateAnew(map, objs, key) ==
    [map |-> [map EXCEPT ![key] = Len(objs) + 1],
     made |-> Append(objs, key),
     inst |-> Len(objs) + 1]

\* The body of get_method / get_channel for the key <<kind, declaration>>, on
\* the map and the endpoints constructed so far: a stored endpoint is returned;
\* otherwise one is constructed, stored and returned.
GetOrCreate(map, objs, key) ==
    IF map[key] # NoEndpoint
    THEN [map |-> map, made |-> objs, inst |-> map[key]]
    ELSE [map |-> [map EXCEPT ![key] = Len(objs) + 1],
          made |-> Append(objs, key),
          inst |-> Len(objs) + 1]

\* The program calls get_method<decl>() or get_channel<decl>().
GetEndpoint(kind, decl) ==
    /\ events < MaxEvents
    /\ events' = events + 1
    /\ LET r == GetOrCreate(endpoints, made, <<kind, decl>>)
       IN  /\ endpoints' = r.map
           /\ made' = r.made
           /\ lookups' = Append(lookups, [kind |-> kind, decl |-> decl, inst |-> r.inst,
                                          use |-> "get", subs |-> {}])
    /\ UNCHANGED <<requires, stack, ret, hook_log, connected>>
    /\ UNCHANGED <<subscribers, channel_tasks, received, published>>
    /\ UNCHANGED sighup_vars
    /\ UNCHANGED <<registry_vars, sched_vars, signal_vars, quit_vars, call_vars>>

\* The program calls get_channel<decl>().subscribe(sub).
GetChannelSubscribe(decl, sub) ==
    /\ events < MaxEvents
    /\ events' = events + 1
    /\ LET r == GetOrCreate(endpoints, made, <<"channel", decl>>)
       IN  /\ endpoints' = r.map
           /\ made' = r.made
           /\ connected' = connected \cup {<<r.inst, sub>>}
           /\ lookups' = Append(lookups, [kind |-> "channel", decl |-> decl, inst |-> r.inst,
                                          use |-> "subscribe", subs |-> {sub}])
    /\ UNCHANGED <<requires, stack, ret, hook_log>>
    /\ UNCHANGED <<subscribers, channel_tasks, received, published>>
    /\ UNCHANGED sighup_vars
    /\ UNCHANGED <<registry_vars, sched_vars, signal_vars, quit_vars, call_vars>>

\* The program calls get_channel<decl>().publish(priority, data): the
\* subscribers the publish finds on the channel it was handed.
GetChannelPublish(decl) ==
    /\ events < MaxEvents
    /\ events' = events + 1
    /\ LET r == GetOrCreate(endpoints, made, <<"channel", decl>>)
       IN  /\ endpoints' = r.map
           /\ made' = r.made
           /\ lookups' = Append(lookups, [kind |-> "channel", decl |-> decl, inst |-> r.inst,
                                          use |-> "publish",
                                          subs |-> {sub \in Subscribers : <<r.inst, sub>> \in connected}])
    /\ UNCHANGED <<requires, stack, ret, hook_log, connected>>
    /\ UNCHANGED <<subscribers, channel_tasks, received, published>>
    /\ UNCHANGED sighup_vars
    /\ UNCHANGED <<registry_vars, sched_vars, signal_vars, quit_vars, call_vars>>

----------------------------------------------------------------------------
\* find_plugin and get_plugin, by name and by type.

\* The process was killed by a fault.
Crashed == <<Frame("crash", "-", 0)>>

\* find_plugin(name): the plugin of that name in the map, or a null pointer.
FindPluginByName(name) == IF name \in plugins THEN name ELSE "nullptr"

\* find_plugin<Plugin>(): find_plugin(demangled type name), cast to Plugin*.
FindPluginByType(p) == FindPluginByName(p)

\* The program calls find_plugin(name) or find_plugin<Plugin>().
FindPlugin(p) ==
    /\ Idle
    /\ events < MaxEvents
    /\ events' = events + 1
    /\ ret' = Returned("find_plugin", FindPluginByType(p))
    /\ UNCHANGED <<requires, stack, hook_log>>
    /\ UNCHANGED <<registry_vars, sched_vars, signal_vars, quit_vars, call_vars>>
    /\ UNCHANGED channel_vars

\* The program calls get_plugin(name): a null pointer from find_plugin is
\* turned into a std::runtime_error.
GetPlugin(name) ==
    /\ Idle
    /\ events < MaxEvents
    /\ events' = events + 1
    /\ ret' = IF FindPluginByName(name) = "nullptr"
              THEN Returned("get_plugin", "runtime_error")
              ELSE Returned("get_plugin", name)
    /\ UNCHANGED <<requires, stack, hook_log>>
    /\ UNCHANGED <<registry_vars, sched_vars, signal_vars, quit_vars, call_vars>>
    /\ UNCHANGED channel_vars

\* A get_plugin<Plugin>() that tests the pointer as get_plugin(name) does.
DereferenceChecked(ptr) ==
    IF ptr = "nullptr"
    THEN {[ret |-> Returned("get_plugin<>", "runtime_error"), stack |-> <<>>]}
    ELSE {[ret |-> Returned("get_plugin<>", ptr), stack |-> <<>>]}

\* return *ptr in get_plugin<Plugin>(): the pointer is not tested. Dereferencing
\* a null pointer is undefined: the caller is handed a reference to no object
\* and goes on, or the process is killed by the fault.
Dereference(ptr) ==
    IF ptr = "nullptr"
    THEN {[ret |-> Returned("get_plugin<>", "null reference"), stack |-> <<>>],
          [ret |-> Returned("get_plugin<>", "fault"), stack |-> Crashed]}
    ELSE {[ret |-> Returned("get_plugin<>", ptr), stack |-> <<>>]}

\* The program calls get_plugin<Plugin>().
GetPluginByType(p) ==
    /\ Idle
    /\ events < MaxEvents
    /\ events' = events + 1
    /\ \E r \in Dereference(FindPluginByType(p)) :
          /\ ret' = r.ret
          /\ stack' = r.stack
    /\ UNCHANGED <<requires, hook_log>>
    /\ UNCHANGED <<registry_vars, sched_vars, signal_vars, quit_vars, call_vars>>
    /\ UNCHANGED channel_vars

----------------------------------------------------------------------------

\* The application after construction, whatever the plugins require.
Constructed ==
    /\ plugins = {}
    /\ state = [p \in Plugins |-> "absent"]
    /\ initialized_plugins = <<>>
    /\ running_plugins = <<>>
    /\ is_quiting = FALSE
    /\ io_stopped = FALSE
    /\ io_queue = <<>>
    /\ pri_queue = {}
    /\ order_ = 0
    /\ stack = <<>>
    /\ ret = Returned("none", "-")
    /\ hook_log = <<>>
    /\ task_log = <<>>
    /\ posted = <<>>
    /\ startup_sig = NoStartupSig
    /\ main_sig = NoMainSig
    /\ signals = 0
    /\ init_called = FALSE
    /\ startup_called = FALSE
    /\ shutdowns = 0
    /\ events = 0
    /\ subscribers = <<>>
    /\ channel_tasks = {}
    /\ received = <<>>
    /\ published = <<>>
    /\ endpoints = [key \in Kinds \X Decls |-> NoEndpoint]
    /\ made = <<>>
    /\ connected = {}
    /\ lookups = <<>>
    /\ sighup_callback = FALSE
    /\ sighup_sig = NoSighupSig
    /\ sighups = 0
    /\ sighup_tasks = {}
    /\ sighup_log = <<>>
    /\ startup_sighups = <<>>

Init ==
    /\ requires \in RequiresChoices
    /\ Constructed

Next ==
    \/ \E p \in Plugins : Register(p)
    \/ \E r \in RequestChoices : Initialize(r[1], r[2])
    \/ InitializeImplStep
    \/ PluginInitializeStep
    \/ Quit
    \/ SignalArrive
    \/ StartupThreadRun
    \/ Startup
    \/ StartupStep
    \/ PluginStartupStep
    \/ StartupRearm
    \/ StartupCatch
    \/ StartupRethrow
    \/ ShutdownStep
    \/ \E priority \in Priorities : Post(priority)
    \/ Exec
    \/ ExecPollOne
    \/ ExecuteHighest
    \/ TaskReturn
    \/ ExecRunOne
    \/ ExecExit

Spec == Init /\ [][Next]_vars

\* A program that uses a channel, run without terminate signals: it registers
\* plugin B, makes the calls on the application, and subscribes, unsubscribes
\* and publishes on the channel.
ChannelNext ==
    \/ Register("B")
    \/ \E r \in RequestChoices : Initialize(r[1], r[2])
    \/ InitializeImplStep
    \/ PluginInitializeStep
    \/ Quit
    \/ Startup
    \/ StartupStep
    \/ PluginStartupStep
    \/ StartupRearm
    \/ StartupCatch
    \/ StartupRethrow
    \/ ShutdownStep
    \/ \E priority \in Priorities : Post(priority)
    \/ Exec
    \/ ExecPollOne
    \/ ExecuteHighest
    \/ TaskReturn
    \/ ExecRunOne
    \/ ExecExit
    \/ \E sub \in Subscribers : Subscribe(sub)
    \/ \E sub \in Subscribers : Unsubscribe(sub)
    \/ \E priority \in Priorities, data \in Data : Publish(priority, data)

\* The plugins of the example program: B requires A, C requires A and B, D
\* requires C.
ExampleInit ==
    /\ Init
    /\ requires["C"] = <<"A", "B">>
    /\ requires["B"] = <<"A">>

ChannelSpec == ExampleInit /\ [][ChannelNext]_vars

\* A program that looks plugins up, run without terminate signals: it registers
\* plugins, initializes and starts them, and queries the registry in between.
QueryNext ==
    \/ \E p \in Plugins : Register(p)
    \/ \E r \in RequestChoices : Initialize(r[1], r[2])
    \/ InitializeImplStep
    \/ PluginInitializeStep
    \/ Startup
    \/ StartupStep
    \/ PluginStartupStep
    \/ StartupRearm
    \/ StartupCatch
    \/ StartupRethrow
    \/ ShutdownStep
    \/ \E p \in Plugins : FindPlugin(p)
    \/ \E p \in Plugins : GetPlugin(p)
    \/ \E p \in Plugins : GetPluginByType(p)

QuerySpec == ExampleInit /\ [][QueryNext]_vars

\* A program that is sent SIGHUP while it runs.
SighupNext ==
    \/ Register("B")
    \/ \E r \in RequestChoices : Initialize(r[1], r[2])
    \/ InitializeImplStep
    \/ PluginInitializeStep
    \/ Quit
    \/ SetSighupCallback
    \/ Startup
    \/ StartupThreadRun
    \/ StartupStep
    \/ PluginStartupStep
    \/ StartupRearm
    \/ StartupCatch
    \/ StartupRethrow
    \/ ShutdownStep
    \/ Exec
    \/ ExecPollOne
    \/ ExecuteHighest
    \/ TaskReturn
    \/ ExecRunOne
    \/ ExecExit
    \/ SighupArrive
    \/ SighupHandlerRun
    \/ SighupTaskStep

SighupSpec == ExampleInit /\ [][SighupNext]_vars

\* A program that looks methods and channels up, subscribes and publishes.
EndpointNext ==
    \/ \E kind \in Kinds, decl \in Decls : GetEndpoint(kind, decl)
    \/ \E decl \in Decls, sub \in Subscribers : GetChannelSubscribe(decl, sub)
    \/ \E decl \in Decls : GetChannelPublish(decl)

EndpointSpec == ExampleInit /\ [][EndpointNext]_vars

\* Plugins that require each other in a cycle: A requires B, B requires C, C
\* requires A, and D requires itself and A.
CycleRequires ==
    [p \in Plugins |-> CASE p = "A" -> <<"B">> [] p = "B" -> <<"C">> [] p = "C" -> <<"A">>
                          [] p = "D" -> <<"D", "A">>]

CycleInit ==
    /\ requires = CycleRequires
    /\ Constructed

\* A program that registers and initializes those plugins.
CycleNext ==
    \/ \E p \in Plugins : Register(p)
    \/ \E r \in RequestChoices : Initialize(r[1], r[2])
    \/ InitializeImplStep
    \/ PluginInitializeStep

\* The main thread goes on executing the initialize() call it is in.
CycleSpec ==
    /\ CycleInit
    /\ [][CycleNext]_vars
    /\ WF_vars(InitializeImplStep)
    /\ WF_vars(PluginInitializeStep)

----------------------------------------------------------------------------
\* Properties.

\* The positions of hook_log where hook h of plugin p was invoked.
HookRuns(h, p) == {k \in DOMAIN hook_log : hook_log[k].h = h /\ hook_log[k].p = p}

\* The positions of hook_log where hook h of plugin p ran and returned.
HookDone(h, p) == {k \in HookRuns(h, p) : hook_log[k].ok}

\* q stands before p in the sequence s.
Before(s, q, p) == \E j, k \in DOMAIN s : j < k /\ s[j] = q /\ s[k] = p

\* C1: after any sequence of register and initialize calls that leaves a
\* plugin P and a plugin Q it depends on both initialized, every run of P's
\* initialize hook came after Q's initialize hook had run and returned, and if
\* P is recorded in initialized_plugins then Q is recorded before it.
C1_DependencyInitializedFirst ==
    (stack = <<>> /\ ~startup_called) =>
        \A p \in Plugins : \A q \in Deps(p) :
            (state[p] = "initialized" /\ state[q] = "initialized") =>
                /\ \A k \in HookRuns("initialize", p) :
                       \E j \in HookDone("initialize", q) : j < k
                /\ p \in Range(initialized_plugins) => Before(initialized_plugins, q, p)

\* C2: whenever the startup hook of a plugin P runs, the startup hook of every
\* plugin Q it depends on has run and returned before, and whenever P is in
\* running_plugins Q is in it before P.
C2_DependencyStartedFirst ==
    \A p \in Plugins : \A q \in Deps(p) :
        /\ \A k \in HookRuns("startup", p) : \E j \in HookDone("startup", q) : j < k
        /\ p \in Range(running_plugins) => Before(running_plugins, q, p)


\* C3: while application::shutdown runs, the shutdown hooks it has invoked so
\* far are those of the last plugins of running_plugins, last one first: when
\* its loop ends, the hooks ran in the exact reverse of running_plugins.
C3_ShutdownReverseOrder ==
    (stack # <<>> /\ Top.fn = "shutdown") =>
        LET n == Len(running_plugins)
            done == n - Top.i
            base == Len(hook_log) - done
        IN  /\ base >= 0
            /\ \A k \in 1..done :
                   hook_log[base + k] = [h |-> "shutdown", p |-> running_plugins[n - k + 1], ok |-> TRUE]
            /\ base > 0 => hook_log[base].h # "shutdown"

\* C3 witness: startup() was cut short after two of three initialized plugins,
\* and the loop of shutdown has ended.
C3_Witness ==
    /\ stack # <<>>
    /\ Top.fn = "shutdown"
    /\ Top.i = 0
    /\ Len(running_plugins) = 2
    /\ Len(initialized_plugins) = 3

\* The lifecycle moves a plugin object may make, and the creation and the
\* destruction of the object.
LifecycleMove(a, b) ==
    \/ <<a, b>> \in {<<"registered", "initialized">>, <<"initialized", "started">>,
                     <<"started", "stopped">>}
    \/ a = "absent" /\ b = "registered"
    \/ b = "absent"

\* A transition called on p in a state other than its precondition state
\* leaves every plugin state as it is and runs no hook.
OutOfStateNoOp(p) ==
    /\ state[p] # "registered" =>
           \A r \in PluginInitializeCall(p, state, stack) :
               r.state = state /\ r.stack \in {stack, Aborted}
    /\ state[p] # "initialized" =>
           \A r \in PluginStartupCall(p, state, stack) :
               r.state = state /\ r.stack \in {stack, Aborted}
    /\ state[p] # "started" => PluginShutdown(p, state) = state

\* C4: the state of a plugin object only moves registered -> initialized ->
\* started -> stopped, one move at a time, never backward and never skipping a
\* state, and a transition called in a state other than its precondition
\* state changes no plugin state.
C4_LifecycleMonotonic ==
    /\ [](\A p \in plugins : OutOfStateNoOp(p))
    /\ [][\A p \in Plugins : state'[p] # state[p] => LifecycleMove(state[p], state'[p])]_vars

\* C4 witness: C went through the whole chain while its dependency A, shared
\* with B, had initialize and startup called on it a second time.
C4_Witness ==
    /\ state["C"] = "stopped"
    /\ state["A"] = "stopped"
    /\ requires["B"] = <<"A">>

\* C5: the name map holds exactly one object per registered name, and a
\* register call for a plugin that is already in the map returns that plugin
\* and leaves the map, every plugin state, both order lists and the hooks run
\* so far unchanged.
C5_RegisterIdempotent ==
    /\ [](\A p \in Plugins : p \in plugins <=> state[p] # "absent")
    /\ [][\A p \in plugins :
              Register(p) => /\ UNCHANGED <<registry_vars, hook_log>>
                             /\ ret' = Returned("register", p)]_vars

\* C5 witness: register_plugin<A>() has returned for an A that was already
\* registered and initialized.
C5_Witness ==
    /\ stack = <<>>
    /\ ret = Returned("register", "A")
    /\ state["A"] = "initialized"
    /\ initialized_plugins = <<"A">>

\* The number of positions of s that hold x.
Count(s, x) == Cardinality({k \in DOMAIN s : s[k] = x})

\* The plugins p depends on, directly or not, and p itself.
RECURSIVE Closure(_)
Closure(p) == {p} \cup UNION {Closure(q) : q \in Deps(p)}

\* No initialize hook of p or of a plugin it depends on has thrown.
NoInitializeFailure(p) ==
    \A k \in DOMAIN hook_log :
        (hook_log[k].h = "initialize" /\ hook_log[k].p \in Closure(p)) => hook_log[k].ok

\* initialize has been called on the object of p.
InitializeCalled(p) == state[p] \in {"initialized", "started"}

C7_ClosureRegistered ==
    (stack = <<>> /\ ret.op = "register" /\ \A k \in DOMAIN hook_log : hook_log[k].ok) =>
        \A q \in Closure(ret.val) : q \in plugins /\ state[q] = "registered"

\* C7, amended: when register for P returns, P and every plugin it depends on,
\* directly or not, is in the name map: in state registered when the call
\* created it, in the state it had when it was in the map before the call.
C7_ClosureInMap ==
    [][\A p \in Plugins :
           Register(p) =>
               \A q \in Closure(p) :
                   /\ q \in plugins'
                   /\ state'[q] = IF q \in plugins THEN state[q] ELSE "registered"]_vars

\* C7 witness: register_plugin<D>() has returned; it created D, C and B, and
\* found A in the map, initialized.
C7_Witness ==
    /\ stack = <<>>
    /\ ret = Returned("register", "D")
    /\ state = [q \in Plugins |-> IF q = "A" THEN "initialized" ELSE "registered"]

\* exec() sits in run_one(), waiting for a handler: nothing is queued on the
\* io_context and it is not stopped.
ExecBlocked ==
    /\ stack # <<>>
    /\ Top.fn = "exec_run_one"
    /\ ~io_stopped
    /\ io_queue = <<>>

PendingTasks == (1..Len(posted)) \ Range(task_log)

\* Task t goes before task u: greater priority, or equal priority and posted earlier.
GoesBefore(t, u) == posted[t] > posted[u] \/ (posted[t] = posted[u] /\ t < u)

\* The step dispatches a task, and that task goes before every other pending one.
DispatchesBest ==
    task_log' # task_log =>
        \A u \in PendingTasks \ {task_log'[Len(task_log')]} :
            GoesBefore(task_log'[Len(task_log')], u)

\* While a task runs, no other task is dispatched.
RunsToCompletion == (stack # <<>> /\ Top.fn = "exec_task") => task_log' = task_log

C10_NoSignalLost == signals > 0 => ~(ExecBlocked /\ ~is_quiting)

\* The plugins whose hook h ran and returned, in the order the hooks ran.
RECURSIVE HookOrder(_, _)
HookOrder(h, k) ==
    IF k = 0 THEN <<>>
    ELSE IF hook_log[k].h = h /\ hook_log[k].ok
         THEN Append(HookOrder(h, k - 1), hook_log[k].p)
         ELSE HookOrder(h, k - 1)

\* s is t read backwards.
IsReverse(s, t) == Len(s) = Len(t) /\ \A k \in DOMAIN s : s[k] = t[Len(t) - k + 1]

\* C11: when startup() has left with the exception of a startup hook, the
\* shutdown hooks of the plugins that had been started (their startup hook
\* returned and they were in running_plugins) have been invoked, in the
\* reverse of the order in which they started.
C11_ShutdownBeforeRethrow ==
    ((stack # <<>> /\ Top.fn = "startup_rethrow") \/ ret = Returned("startup", "exception")) =>
        IsReverse(HookOrder("shutdown", Len(hook_log)), HookOrder("startup", Len(hook_log)))

\* C11 witness: the exception of the third startup hook has reached the
\* caller after two plugins had been started.
C11_Witness ==
    /\ stack = <<>>
    /\ ret = Returned("startup", "exception")
    /\ Len(HookOrder("startup", Len(hook_log))) = 2
    /\ Len(HookOrder("shutdown", Len(hook_log))) = 2

\* s is an initial part of t.
IsPrefix(s, t) == Len(s) <= Len(t) /\ \A k \in DOMAIN s : s[k] = t[k]

\* C12: once the quiescence flag is true in a run that called startup(), the
\* plugins in running_plugins are an initial part of initialized_plugins, and
\* when exec() has returned every plugin that was started has had its shutdown
\* hook invoked.
C12_QuitLeavesPrefix ==
    (is_quiting /\ startup_called) =>
        /\ IsPrefix(running_plugins, initialized_plugins)
        /\ ret.op = "exec" =>
               \A p \in Plugins : HookDone("startup", p) # {} => HookDone("shutdown", p) # {}

\* The step runs an initialize hook that throws.
InitializeHookThrows ==
    /\ Len(hook_log') = Len(hook_log) + 1
    /\ hook_log'[Len(hook_log')].h = "initialize"
    /\ ~hook_log'[Len(hook_log')].ok

\* The step ends the initialize() call and leaves the registry as it is: the
\* plugins recorded in initialized_plugins keep their state and their place,
\* and no state is rolled back.
InitializeAborted ==
    /\ stack' = <<>>
    /\ ret'.op = "initialize"
    /\ UNCHANGED registry_vars

\* C13, as stated: when an initialize hook throws, the initialize() call ends
\* there, the caller gets false, and plugin states and initialized_plugins
\* are left as they are.
C13_FailureReturnsFalse ==
    [][InitializeHookThrows => (InitializeAborted /\ ret'.val = "false")]_vars

\* C13, amended: when an initialize hook throws, the initialize() call ends
\* there and the caller gets a failure, false when the plugin was reached from
\* an autostart plugin and the exception itself when it was reached from the
\* plugin option; plugin states and initialized_plugins are left as they are.
C13_FailureReported ==
    [][InitializeHookThrows =>
           /\ InitializeAborted
           /\ ret'.val = IF stack[1].names # <<>> THEN "exception" ELSE "false"]_vars

\* C13 witness: an autostart initialize() has returned false after one plugin
\* was initialized and recorded and the hook of the next one threw.
C13_Witness ==
    /\ stack = <<>>
    /\ ret = Returned("initialize", "false")
    /\ Len(initialized_plugins) = 1
    /\ hook_log # <<>>
    /\ ~hook_log[Len(hook_log)].ok

\* The position of a state in the lifecycle.
Rank(st) ==
    CASE st = "registered" -> 0
      [] st = "initialized" -> 1
      [] st = "started" -> 2
      [] st = "stopped" -> 3
      [] OTHER -> -1

\* C16: in every reachable state a plugin whose state is initialized or later
\* has all its dependencies in state initialized or later, and a plugin whose
\* state is started has all its dependencies in state started.
C16_DependenciesNotBehind ==
    \A p \in plugins : \A q \in Deps(p) :
        /\ Rank(state[p]) >= 1 => Rank(state[q]) >= 1
        /\ state[p] = "started" => state[q] = "started"

\* C17: when the loop of application::shutdown has ended, every plugin of
\* running_plugins is in state stopped; when shutdown has returned, the name
\* map, initialized_plugins and running_plugins are empty, no plugin object
\* is left and the quiescence flag is true.
C17_ShutdownLeavesNothing ==
    /\ (stack # <<>> /\ Top.fn = "shutdown" /\ Top.i = 0) =>
           \A p \in Range(running_plugins) : state[p] = "stopped"
    /\ (stack # <<>> /\ Top.fn \in {"exec_exit", "startup_rethrow"}) =>
           /\ plugins = {}
           /\ \A p \in Plugins : state[p] = "absent"
           /\ initialized_plugins = <<>>
           /\ running_plugins = <<>>
           /\ is_quiting

\* C17 witness: the shutdown called by exec() has returned after stopping two
\* plugins.
C17_Witness ==
    /\ stack # <<>>
    /\ Top.fn = "exec_exit"
    /\ shutdowns = 1
    /\ Len(HookOrder("shutdown", Len(hook_log))) = 2

\* C18: the quiescence flag is false at the start, becomes true only in a
\* step that calls quit() (the program, a signal handler, or shutdown), and
\* once true it is never false again, whatever is called afterwards.
C18_QuitMonotonic ==
    /\ ~is_quiting
    /\ [][/\ is_quiting => is_quiting'
          /\ (~is_quiting /\ is_quiting') =>
                 (Quit \/ StartupThreadRun \/ ExecPollOne \/ ExecRunOne \/ ShutdownStep)]_vars

\* C18 witness: quit() was called by a signal handler and again by shutdown,
\* and exec() has returned with the flag true.
C18_Witness ==
    /\ ret.op = "exec"
    /\ is_quiting
    /\ signals >= 1
    /\ shutdowns = 1

\* C19: no initialize hook runs after a startup hook has begun.
C19_InitializeBeforeStartup ==
    \A j, k \in DOMAIN hook_log :
        (hook_log[j].h = "startup" /\ hook_log[k].h = "initialize") => k < j

\* The number of times task id has invoked subscriber sub with data.
Deliveries(rcv, sub, data, id) ==
    Cardinality({k \in 1..Len(rcv) : rcv[k] = [sub |-> sub, data |-> data, task |-> id]})

\* The number of times task id has invoked subscriber sub, with any data.
Invocations(rcv, sub, id) ==
    Cardinality({k \in 1..Len(rcv) : rcv[k].sub = sub /\ rcv[k].task = id})

\* A publish call posts one task if it found a subscriber and none otherwise.
PostsOneIfSubscribed(e) == e.posts = (IF e.subs = <<>> THEN 0 ELSE 1)

DeliveryDispatched(id) ==
    /\ Len(task_log') = Len(task_log) + 1
    /\ task_log'[Len(task_log')] = id
    /\ \E t \in channel_tasks : t.id = id

PublishReturns == Len(published') = Len(published) + 1

\* The exec loop starts a posted task in this step.
TaskDispatched == Len(task_log') = Len(task_log) + 1

\* C15: publication is deferred. No subscriber is invoked in the step of a
\* publish call, wherever the call is made, and every step that invokes a
\* subscriber is the dispatch of a posted delivery task by the exec loop.
C15_PublishDeferred ==
    [][/\ PublishReturns => received' = received
       /\ received' # received =>
            /\ TaskDispatched
            /\ InExec
            /\ \E t \in channel_tasks : t.id = task_log'[Len(task_log')]]_vars

\* Witness for C15: a subscriber, running in its delivery task, has published
\* again: the second publish posted a task and nobody has received its data.
C15_Witness ==
    /\ stack # <<>>
    /\ Top.fn = "exec_task"
    /\ \E t \in channel_tasks : t.id = Top.i
    /\ \E k \in 1..Len(published) :
        /\ published[k].posts = 1
        /\ published[k].task > Top.i
        /\ \A n \in 1..Len(received) : received[n].task # published[k].task
    /\ \E n \in 1..Len(received) : received[n].task = Top.i

\* The query just made reported that the plugin was not found: get_plugin
\* threw, or find_plugin returned a null pointer.
NotFound == stack' = <<>> /\ ret'.val \in {"runtime_error", "nullptr"}

\* C20: a query for a plugin that is not registered, by name or by type,
\* reports NotFound to its caller and leaves the registry unchanged, before
\* any registration and after shutdown has erased the plugins.
C20_UnregisteredNotFound ==
    [][\A p \in Plugins :
        (p \notin plugins /\ (FindPlugin(p) \/ GetPlugin(p) \/ GetPluginByType(p))) =>
            (NotFound /\ UNCHANGED registry_vars)]_vars

\* application::shutdown() is running.
InShutdown == \E k \in 1..Len(stack) : stack[k].fn = "shutdown"

\* C23: the auxiliary signal thread of startup() runs only while startup() is
\* in its loop over the plugins or entering its catch block: it has been
\* stopped and joined before startup() re-arms the signals and returns, before
\* it calls shutdown() and rethrows, and so before the exec loop.  (A failed
\* assert inside the loop kills the process, thread included.)
C23_SignalThreadJoined ==
    (startup_sig.thread = "running" /\ stack # Aborted) =>
        /\ stack # <<>>
        /\ stack[1].fn \in {"startup", "startup_catch"}
        /\ ~InShutdown
        /\ ~InExec

\* Witness for C23: a startup hook has thrown and startup() is in shutdown()
\* with the thread joined, after the thread had called quit().
C23_Witness ==
    /\ InShutdown
    /\ stack[1].fn = "startup_rethrow"
    /\ startup_sig.thread = "stopped"
    /\ is_quiting
    /\ signals >= 1

\* The handler of wait_for_signal runs on the application's io_context in this
\* step of the exec loop, and calls quit().
SignalHandlerRuns ==
    /\ ExecPollOne \/ ExecRunOne
    /\ ~io_stopped
    /\ io_queue # <<>>
    /\ Head(io_queue).kind = "signal"

\* C24: a quit(), called by the program, by the signal thread of startup() or
\* by the signal handler on the main thread, sets the quiescence flag and
\* stops the io_context, and leaves the name map, the plugin states,
\* initialized_plugins, running_plugins and the priority queue as they were.
C24_QuitTouchesFlagOnly ==
    [][(Quit \/ StartupThreadRun \/ SignalHandlerRuns) =>
            /\ is_quiting' /\ io_stopped'
            /\ UNCHANGED <<plugins, state, initialized_plugins, running_plugins>>
            /\ UNCHANGED <<pri_queue, order_>>]_vars

\* Witness for C24: a terminate signal was handled by the exec loop, which
\* called quit() while plugins were running and a task was in the priority queue.
C24_Witness ==
    /\ InExec
    /\ is_quiting
    /\ signals >= 1
    /\ running_plugins # <<>>
    /\ pri_queue # {}
    /\ events = signals + Len(posted)

\* exec() has left its loop: it is in shutdown() or about to return.
LoopLeft == stack # <<>> /\ stack[1].fn = "exec_exit"

C26_BlocksOnlyWhenIdle ==
    /\ (stack # <<>> /\ Top.fn = "exec_run_one") => pri_queue = {}
    /\ ExecBlocked => Len(task_log) = order_

\* Witness for C26: the loop is blocked in run_one() after it has executed the
\* two tasks that were posted, with no quit() called.
C26_Witness ==
    /\ ExecBlocked
    /\ Len(task_log) = 2
    /\ Len(posted) = 2
    /\ signals = 0
    /\ ~is_quiting

\* The number of times the posted task id has been executed.
Executions(id) == Cardinality({k \in 1..Len(task_log) : task_log[k] = id})

InitializedBefore(q, k) == \E j \in HookDone("initialize", q) : j < k

\* C30: a startup hook is invoked only for a plugin whose own initialize hook,
\* and the initialize hook of each of its dependencies, has run before and
\* returned without throwing, whatever initialize calls preceded startup().
C30_StartupAfterOwnInitialize ==
    \A p \in Plugins : \A k \in HookRuns("startup", p) :
        /\ InitializedBefore(p, k)
        /\ \A q \in Deps(p) : InitializedBefore(q, k)

\* The deepest recursion of plugin::initialize that visits every plugin once,
\* below the frame of initialize_impl.
MaxDepth == Cardinality(Plugins) + 1

\* C28: on a cyclic dependency graph every register_plugin call returns, every
\* initialize() call returns (or throws), the recursion of plugin::initialize
\* never holds more than one frame per plugin, and no plugin's initialize hook
\* runs twice.
C28_CycleTerminates ==
    /\ [](Len(stack) <= MaxDepth)
    /\ [](\A p \in Plugins : Cardinality(HookRuns("initialize", p)) <= 1)
    /\ [](\A j, k \in 1..Len(stack) :
            (j # k /\ stack[j].fn = "plugin_initialize") => stack[j].p # stack[k].p)
    /\ (stack # <<>>) ~> (stack = <<>>)

\* Witness for C28: an initialize() call has returned true after the initialize
\* hooks of the three plugins of the cycle have each run once, the hook of the
\* plugin requested last.
C28_Witness ==
    /\ stack = <<>>
    /\ ret = Returned("initialize", "true")
    /\ Len(hook_log) = 3
    /\ hook_log[3].p = "A"
    /\ \A p \in {"A", "B", "C"} : Cardinality(HookDone("initialize", p)) = 1

\* The lookups of the endpoint of one kind and declaration.
LookupsOf(kind, decl) == {k \in 1..Len(lookups) : lookups[k].kind = kind /\ lookups[k].decl = decl}

\* C22: for each declaration type the endpoint of each kind is constructed at
\* most once, every lookup of it returns that one instance, and a publish made
\* through one lookup of a channel finds the subscribers that earlier lookups
\* of the same declaration connected.
C22_EndpointConstructedOnce ==
    \A kind \in Kinds, decl \in Decls :
        /\ Cardinality({n \in 1..Len(made) : made[n] = <<kind, decl>>}) <= 1
        /\ \A j, k \in LookupsOf(kind, decl) : lookups[j].inst = lookups[k].inst
        /\ \A j, k \in LookupsOf(kind, decl) :
                (j < k /\ lookups[j].use = "subscribe" /\ lookups[k].use = "publish") =>
                    lookups[j].subs \subseteq lookups[k].subs

\* Witness for C22: a channel was looked up three times, to get it, to
\* subscribe and to publish; one endpoint was constructed and the publish
\* found the subscriber.
C22_Witness ==
    /\ Len(made) = 1
    /\ Len(lookups) = 3
    /\ lookups[1].use = "get"
    /\ lookups[2].use = "subscribe"
    /\ lookups[3].use = "publish"
    /\ lookups[3].subs = lookups[2].subs

\* What the reload task id has invoked so far, in order.
ReloadCalls(id) ==
    LET es == SelectSeq(sighup_log, LAMBDA e : e.task = id)
    IN  [k \in 1..Len(es) |-> es[k].call]

\* The reload task id has run and returned, and the exec loop goes on.
ReloadDone(id) ==
    /\ id \in sighup_tasks
    /\ id \in Range(task_log)
    /\ InExec
    /\ ~LoopLeft
    /\ ~(stack[1].fn = "exec_task" /\ stack[1].i = id)

\* Every reload task is posted at priority::medium, each SIGHUP delivered to
\* the sighup set has posted one task or its handler is still to run, and the
\* set waits for the next SIGHUP whenever no handler of it is queued.
OneTaskPerSighup ==
    /\ \A id \in sighup_tasks : posted[id] = Medium
    /\ sighup_sig.exists =>
          /\ Cardinality(sighup_tasks) + sighup_sig.undelivered + (IF sighup_sig.armed THEN 0 ELSE 1) = sighups
          /\ sighup_sig.armed <=> SighupHandler \notin Range(io_queue)

BeforeErase == stack # <<>> /\ Top.fn = "shutdown" /\ Top.i = 0

\* C31: no plugin is erased by application::shutdown while its state is
\* started, no shutdown hook runs twice, and a stopped plugin has had its
\* shutdown hook invoked; so every plugin that became started, the one whose
\* startup hook raised included, is stopped with one shutdown hook run when
\* the registry erases it.
C31_StartedPluginsShutDown ==
    /\ \A p \in Plugins : Cardinality(HookRuns("shutdown", p)) <= 1
    /\ \A p \in Plugins : state[p] = "stopped" => Cardinality(HookRuns("shutdown", p)) = 1
    /\ BeforeErase => \A p \in Plugins : state[p] # "started"

\* The sequence s holds no element twice.
NoDuplicates(s) == \A j, k \in DOMAIN s : s[j] = s[k] => j = k

\* C32: in every reachable state initialized_plugins and running_plugins hold
\* no plugin twice, every running plugin is among the initialized ones, a
\* plugin is in initialized_plugins exactly when its state is initialized,
\* started or stopped, and in running_plugins exactly when its state is started.
C32_ListsMatchStates ==
    /\ NoDuplicates(initialized_plugins)
    /\ NoDuplicates(running_plugins)
    /\ Range(running_plugins) \subseteq Range(initialized_plugins)
    /\ \A p \in Plugins :
          /\ p \in Range(initialized_plugins) <=> state[p] \in {"initialized", "started", "stopped"}
          /\ p \in Range(running_plugins) <=> state[p] = "started"

\* A SIGHUP was delivered to the set of the startup thread while a startup
\* hook was running.
SighupInStartupHook == TRUE \in Range(startup_sighups)

\* startup() has been called and has returned or raised.
StartupOver == startup_called /\ ~InStartup

\* C33: after a SIGHUP delivered while startup() was running a startup hook,
\* quit() has been called by the time startup() is over, exec() returns with
\* the application shut down once, and the SIGHUPs of the startup phase cause
\* no reload task, callback or reload hook.
C33_StartupSighupQuits ==
    /\ (SighupInStartupHook /\ StartupOver) => is_quiting
    /\ (SighupInStartupHook /\ ret = Returned("exec", "ok")) => shutdowns = 1
    /\ sighups = 0 => (sighup_tasks = {} /\ sighup_log = <<>>)

====
